---- MODULE Spec2Model ----
(***************************************************************************)
(* CottageLauncher: the job registry (JOBS), the modpack install job, the  *)
(* instance launch job and the job status poll of app/api/routes.py.       *)
(*                                                                         *)
(* A background job is a thread; every write to its JOBS record is one     *)
(* step of the model, taken together with the calls that precede it in     *)
(* the code.  Network, file-system and installer outcomes are chosen by    *)
(* the environment.                                                        *)
(***************************************************************************)
EXTENDS Integers, Sequences, FiniteSets, TLC

VARIABLES
    JOBS,      \* routes.py JOBS: job id -> [status, progress, message]
    kind,      \* job id -> "none" | "install" | "launch" (which task was queued)
    pc,        \* job id -> position of the background task
    exc,       \* job id -> the exception travelling to the task's except clause
    absorbed,  \* job id -> an exception was raised in the task and never reached its except clause
    inst,      \* job id -> locals and files of _install_modpack_job
    lnch,      \* job id -> locals of _launch_instance_job
    versions,  \* MC_DIR / "versions": the directories, and those holding their json
    poll,      \* the get_job_status request in flight
    call,      \* a helper function applied on its own: its argument and its result
    jre        \* the bundled runtimes on disk, and the calls of _ensure_adoptium_jre

vars == <<JOBS, kind, pc, exc, absorbed, inst, lnch, versions, poll, call, jre>>

---------------------------------------------------------------------------
(* Bounds of the explored input space. *)

MaxFiles == 2       \* file entries of a manifest
PoolFiles == 11     \* file entries of a manifest when the pool width is exercised
MaxCallbacks == 2   \* callbacks an installer makes during one call
SmallFiles == 1     \* file entries of a manifest when jobs run side by side
SmallCallbacks == 1 \* callbacks during one call when jobs run side by side
MaxEnsure == 3      \* calls of the runtime provisioner
MaxMajor == 2       \* first component of a game version
MaxMinor == 21      \* second component of a game version
MaxPatch == 6       \* third component of a game version
MaxCp == 3          \* entries of a classpath
MaxName == 3        \* characters of an instance name

\* The job ids a run draws: two of the hex tokens secrets.token_hex(8) gives.
JobIds == {"a3f19c2e5b7d8041", "0d4e6f8a1b3c5d7e"}

---------------------------------------------------------------------------
(* Messages and job records. *)

\* A version identifier is the sequence of the parts its text joins with "-";
\* None and "" are the empty sequence.
NoVid == <<>>

\* A message text, with the values an f-string puts into it.
Msg(t) == [text |-> t, done |-> 0, total |-> 0, vid |-> NoVid]

MsgCount(t, d, n) == [text |-> t, done |-> d, total |-> n, vid |-> NoVid]

MsgVid(t, v) == [text |-> t, done |-> 0, total |-> 0, vid |-> v]

\* dict.update(**fields): the named keys are replaced, the others kept.
update(rec, fields) ==
    [k \in DOMAIN rec |-> IF k \in DOMAIN fields THEN fields[k] ELSE rec[k]]

\* JOBS[job_id] = rec: a new dict object is bound to the key.
bind(jobs, j, rec) ==
    [k \in DOMAIN jobs \cup {j} |-> IF k = j THEN rec ELSE jobs[k]]

queued_record == [status |-> "queued", progress |-> 0, message |-> Msg("Queued")]

install_running_record ==
    [status |-> "running", progress |-> 0, message |-> Msg("Starting")]

NoExc == [raised |-> FALSE, text |-> Msg(""), at |-> ""]

\* An exception with text m, raised while the task was at position at.
Raised(m, at) == [raised |-> TRUE, text |-> m, at |-> at]

---------------------------------------------------------------------------
(* The instance directory and the paths a manifest declares. *)

\* INSTANCES_DIR / inst_slug, as the components below the file-system root.
inst_dir == <<"instances", "slug">>

\* A path of a manifest entry: its components, and whether it starts at the root.
PathA == [abs |-> FALSE, parts |-> <<"mods", "a.jar">>]
PathB == [abs |-> FALSE, parts |-> <<"config", "b.cfg">>]
PathUp == [abs |-> FALSE, parts |-> <<"..", "evil.jar">>]
PathAbs == [abs |-> TRUE, parts |-> <<"tmp", "evil.jar">>]
\* entry.get("path") of an entry without the key, or with "": falsy.
NoPath == [abs |-> FALSE, parts |-> <<>>]

\* The operating system's walk along the components, ".." leaving a directory.
RECURSIVE walk(_, _)
walk(at, parts) ==
    IF parts = <<>> THEN at
    ELSE LET h == Head(parts) IN
         walk(IF h = ".."
              THEN (IF at = <<>> THEN at ELSE SubSeq(at, 1, Len(at) - 1))
              ELSE Append(at, h),
              Tail(parts))

\* inst_dir / rel_path: pathlib keeps an absolute right operand as it is.
target_path(rel) ==
    IF rel.abs THEN walk(<<>>, rel.parts) ELSE walk(inst_dir, rel.parts)

\* The file at loc lies in the instance's root directory.
in_instance(loc) ==
    /\ Len(loc) > Len(inst_dir)
    /\ SubSeq(loc, 1, Len(inst_dir)) = inst_dir

\* open(..."wb") and the writes that follow: the file at loc holds what.
write_file(disk, loc, what) ==
    [l \in DOMAIN disk \cup {loc} |-> IF l = loc THEN what ELSE disk[l]]

RECURSIVE write_files(_, _, _)
write_files(disk, locs, what) ==
    IF locs = {} THEN disk
    ELSE LET l == CHOOSE x \in locs : TRUE IN
         write_files(write_file(disk, l, what), locs \ {l}, what)

EmptyDisk == [l \in {} |-> ""]

Entry(p, n) == [path |-> p, downloads |-> n]

NoOverrides == [exists |-> FALSE, files |-> {}]

Overrides(S) == [exists |-> TRUE, files |-> S]

Pack(entries, ov) == [files |-> entries, overrides |-> ov]

\* Every sequence of at most n entries drawn from E.
EntryLists(E, n) == UNION {[1..k -> E] : k \in 0..n}

InstInit ==
    [files_entries |-> <<>>, fut |-> <<>>, done |-> 0, overrides |-> NoOverrides,
     disk |-> EmptyDisk, parsed |-> FALSE, index_saved |-> FALSE,
     instance_json |-> FALSE]

---------------------------------------------------------------------------
(* Writes to the registry. *)

\* No helper function is being applied.
NoCall == [fn |-> "", arg |-> <<>>, out |-> <<>>, done |-> FALSE]

IdlePoll ==
    [pc |-> "idle", job |-> "", found |-> FALSE, dict |-> "none", status |-> "",
     progress |-> 0, message |-> Msg(""), versions |-> {}]

\* JOBS[job_id].update(**fields) by job j's task.  A poll that holds the same
\* dict object sees the merge; poll.versions records the record's new value.
Write(j, fields) ==
    LET rec == update(JOBS[j], fields) IN
    /\ JOBS' = [JOBS EXCEPT ![j] = rec]
    /\ poll' = IF poll.pc # "idle" /\ poll.job = j /\ poll.dict = "task"
               THEN [poll EXCEPT !.versions = @ \cup {rec}]
               ELSE poll

\* raise: control leaves the try block for the except clause.
RaiseMsg(j, m) ==
    /\ pc' = [pc EXCEPT ![j] = "except"]
    /\ exc' = [exc EXCEPT ![j] = Raised(m, pc[j])]
    /\ UNCHANGED <<JOBS, poll>>

Raise(j, t) == RaiseMsg(j, Msg(t))

\* A handler that reports a fixed text instead of str(e).
failed_fields_generic(e) == [status |-> "failed", message |-> Msg("Job failed")]

\* except Exception as e: JOBS[job_id].update(status="failed", message=str(e))
failed_fields(e) == [status |-> "failed", message |-> e.text]

\* secrets.token_hex(8): a random 64-bit token, taken to differ from the tokens
\* already drawn.
token_hex(used) == JobIds \ used

---------------------------------------------------------------------------
(* POST /api/install/modpack *)

install_modpack(limit) ==
    /\ Cardinality(DOMAIN JOBS) < limit
    /\ \E job_id \in token_hex(DOMAIN JOBS) :
          /\ JOBS' = bind(JOBS, job_id, queued_record)
          /\ kind' = [kind EXCEPT ![job_id] = "install"]
          /\ pc' = [pc EXCEPT ![job_id] = "queued"]
    /\ UNCHANGED <<exc, absorbed, inst, lnch, versions, poll, call, jre>>

---------------------------------------------------------------------------
(* _install_modpack_job *)

\* A pool without a thread.
max_workers_none == 10 - 10

\* A pool one thread wider than the one the job builds.
max_workers_wider == 10 + 1

\* ThreadPoolExecutor(max_workers=10)
max_workers == 10

\* total = max(1, len(files_entries))
total(entries) == IF Len(entries) > 1 THEN Len(entries) ELSE 1

\* A percentage computed from the entries left instead of the entries done.
pct_of_remaining(d, n) == 15 + ((80 * (n - d)) \div n)

\* pct = 15 + int(80 * (done / total)); for 0 <= done <= total the float
\* product truncates to the integer quotient.
pct(d, n) == 15 + ((80 * d) \div n)

\* The same update marking the job completed as soon as the last entry is counted.
files_fields_completing(d, n) ==
    IF d = n
    THEN [message |-> MsgCount("Downloading files", d, n), progress |-> 15 + ((80 * d) \div n),
          status |-> "completed"]
    ELSE [message |-> MsgCount("Downloading files", d, n), progress |-> 15 + ((80 * d) \div n)]

\* JOBS[job_id].update(message=f"Downloading files... {done}/{total}", progress=pct)
files_fields(d, n) ==
    [message |-> MsgCount("Downloading files", d, n), progress |-> pct(d, n)]

completed_fields ==
    [status |-> "completed", progress |-> 100, message |-> Msg("Install complete")]

finished(f) == f \in {"true", "false", "raised"}

running(j) == {i \in DOMAIN inst[j].fut : inst[j].fut[i] = "running"}

\* line 333: the task binds a fresh record to its id.
install_start(j) ==
    /\ kind[j] = "install" /\ pc[j] = "queued"
    /\ JOBS' = bind(JOBS, j, install_running_record)
    /\ pc' = [pc EXCEPT ![j] = "i_meta"]
    /\ UNCHANGED <<kind, exc, absorbed, inst, poll, lnch, versions, call, jre>>

\* line 337
install_meta(j) ==
    /\ kind[j] = "install" /\ pc[j] = "i_meta"
    /\ Write(j, [message |-> Msg("Fetching version metadata"), progress |-> 2])
    /\ pc' = [pc EXCEPT ![j] = "i_version"]
    /\ UNCHANGED <<kind, exc, absorbed, inst, lnch, versions, call, jre>>

\* lines 338-368: the version record, its archive file, the instance directory.
install_version(j) ==
    /\ kind[j] = "install" /\ pc[j] = "i_version"
    /\ \/ \E t \in {"HTTPStatusError", "No files found for version; cannot install.",
                    "No download URL available for version file.", "OSError"} :
             Raise(j, t)
       \/ /\ Write(j, [message |-> Msg("Downloading .mrpack"), progress |-> 8])
          /\ pc' = [pc EXCEPT ![j] = "i_archive"]
          /\ UNCHANGED exc
    /\ UNCHANGED <<kind, absorbed, inst, lnch, versions, call, jre>>

\* lines 369-374: the archive is streamed to the temporary directory.
install_archive(j) ==
    /\ kind[j] = "install" /\ pc[j] = "i_archive"
    /\ \/ Raise(j, "HTTPStatusError")
       \/ /\ Write(j, [message |-> Msg("Extracting .mrpack"), progress |-> 15])
          /\ pc' = [pc EXCEPT ![j] = "i_extract"]
          /\ UNCHANGED exc
    /\ UNCHANGED <<kind, absorbed, inst, lnch, versions, call, jre>>

\* lines 375-412: extraction, the index and its copy in the instance, then
\* every entry is submitted to the pool.
install_extract(j, Packs) ==
    /\ kind[j] = "install" /\ pc[j] = "i_extract"
    /\ \/ /\ \E t \in {"BadZipFile", "modrinth.index.json not found in pack.",
                       "JSONDecodeError"} : Raise(j, t)
          /\ UNCHANGED inst
       \/ \* line 383: the index was parsed, its copy cannot be written
          /\ Raise(j, "OSError")
          /\ inst' = [inst EXCEPT ![j].parsed = TRUE]
       \/ \E pack \in Packs :
             /\ inst' = [inst EXCEPT ![j] =
                           [@ EXCEPT !.files_entries = pack.files,
                                     !.overrides = pack.overrides,
                                     !.parsed = TRUE,
                                     !.index_saved = TRUE,
                                     !.done = 0,
                                     !.fut = [i \in 1..Len(pack.files) |-> "pending"]]]
             /\ Write(j, [message |-> Msg("Downloading files"), progress |-> 15])
             /\ pc' = [pc EXCEPT ![j] = "i_pool"]
             /\ UNCHANGED exc
    /\ UNCHANGED <<kind, absorbed, lnch, versions, call, jre>>

\* A pool thread takes the oldest queued entry; the pool has max_workers threads.
pool_take(j) ==
    /\ kind[j] = "install" /\ pc[j] = "i_pool"
    /\ Cardinality(running(j)) < max_workers
    /\ \E i \in DOMAIN inst[j].fut :
          /\ inst[j].fut[i] = "pending"
          /\ \A k \in 1..(i - 1) : inst[j].fut[k] # "pending"
          /\ inst' = [inst EXCEPT ![j].fut[i] = "running"]
    /\ UNCHANGED <<JOBS, kind, pc, exc, absorbed, lnch, versions, poll, call, jre>>

\* _download_entry(entry), lines 389-407, with the outcome the network and the
\* file system give it:
\*   "mkdir"  target_path.parent.mkdir raises (outside the try: the future holds it)
\*   "status" the request or raise_for_status fails, before the file is opened
\*   "body"   the stream breaks after the file was opened and partly written
\*   "ok"     the whole body is written
download_result(entry, outcome) ==
    IF entry.path = NoPath \/ entry.downloads = 0 THEN "false"
    ELSE CASE outcome = "mkdir" -> "raised"
           [] outcome = "ok" -> "true"
           [] OTHER -> "false"

download_disk(disk, entry, outcome) ==
    IF entry.path = NoPath \/ entry.downloads = 0 THEN disk
    ELSE CASE outcome = "body" -> write_file(disk, target_path(entry.path), "partial")
           [] outcome = "ok" -> write_file(disk, target_path(entry.path), "download")
           [] OTHER -> disk

download_raises(entry, outcome) ==
    /\ entry.path # NoPath /\ entry.downloads # 0
    /\ outcome # "ok"

_download_entry(j, Outcomes) ==
    /\ kind[j] = "install" /\ pc[j] = "i_pool"
    /\ \E i \in running(j), outcome \in Outcomes :
          LET entry == inst[j].files_entries[i] IN
          /\ inst' = [inst EXCEPT ![j] =
                        [@ EXCEPT !.fut[i] = download_result(entry, outcome),
                                  !.disk = download_disk(@, entry, outcome)]]
          /\ absorbed' = [absorbed EXCEPT ![j] = @ \/ download_raises(entry, outcome)]
    /\ UNCHANGED <<JOBS, kind, pc, exc, lnch, versions, poll, call, jre>>

\* A loop that asks each yielded future for its result.
propagates_result(result) == result = "raised"

\* A future keeps the exception of its call; only future.result() raises it
\* again, and the loop over as_completed never asks for a result.
propagates(result) == FALSE

\* An iterator that may yield a finished future it has yielded before.
as_completed_repeating(done, fut) == \E i \in DOMAIN fut : finished(fut[i])

\* line 413: as_completed(futures) yields each future once, after it finished;
\* done futures have been yielded so far.
as_completed(done, fut) ==
    done < Cardinality({i \in DOMAIN fut : finished(fut[i])})

\* lines 413-417: the job's thread counts the future as_completed yields.
install_as_completed(j) ==
    /\ kind[j] = "install" /\ pc[j] = "i_pool"
    /\ as_completed(inst[j].done, inst[j].fut)
    /\ \E i \in {k \in DOMAIN inst[j].fut : finished(inst[j].fut[k])} :
          IF propagates(inst[j].fut[i])
          THEN /\ Raise(j, "OSError")
               /\ UNCHANGED inst
          ELSE /\ inst' = [inst EXCEPT ![j].done = @ + 1]
               /\ Write(j, files_fields(inst[j].done + 1, total(inst[j].files_entries)))
               /\ UNCHANGED <<pc, exc>>
    /\ UNCHANGED <<kind, absorbed, lnch, versions, call, jre>>

\* A loop left as soon as one future was yielded, the pool not being waited for.
pool_exhausted_early(done, fut) == done = Len(fut) \/ done >= 1

\* lines 412-417: the for loop ends when as_completed has yielded every future,
\* and the with block is left with every pool thread idle.
pool_exhausted(done, fut) == done = Len(fut)

\* lines 419-422: the pool is left once as_completed has yielded every future.
install_after_pool(j) ==
    /\ kind[j] = "install" /\ pc[j] = "i_pool"
    /\ pool_exhausted(inst[j].done, inst[j].fut)
    /\ IF inst[j].overrides.exists
       THEN /\ Write(j, [message |-> Msg("Applying overrides"), progress |-> 96])
            /\ pc' = [pc EXCEPT ![j] = "i_overrides"]
       ELSE /\ pc' = [pc EXCEPT ![j] = "i_manifest"]
            /\ UNCHANGED <<JOBS, poll>>
    /\ UNCHANGED <<kind, exc, absorbed, inst, lnch, versions, call, jre>>

\* lines 423-430: the overrides tree is copied over the instance directory.
install_overrides(j) ==
    /\ kind[j] = "install" /\ pc[j] = "i_overrides"
    /\ \/ \E copied \in SUBSET inst[j].overrides.files :
             /\ Raise(j, "OSError")
             /\ inst' = [inst EXCEPT ![j].disk =
                           write_files(@, {target_path(p) : p \in copied}, "overrides")]
       \/ /\ inst' = [inst EXCEPT ![j].disk =
                        write_files(@, {target_path(p) : p \in inst[j].overrides.files},
                                    "overrides")]
          /\ pc' = [pc EXCEPT ![j] = "i_manifest"]
          /\ UNCHANGED <<JOBS, exc, poll>>
    /\ UNCHANGED <<kind, absorbed, lnch, versions, call, jre>>

\* lines 432-444: instance.json is written, then the job is marked completed.
install_manifest(j) ==
    /\ kind[j] = "install" /\ pc[j] = "i_manifest"
    /\ \/ /\ Raise(j, "OSError")
          /\ UNCHANGED inst
       \/ /\ inst' = [inst EXCEPT ![j].instance_json = TRUE]
          /\ Write(j, completed_fields)
          /\ pc' = [pc EXCEPT ![j] = "done"]
          /\ UNCHANGED exc
    /\ UNCHANGED <<kind, absorbed, lnch, versions, call, jre>>

\* lines 445-446
install_except(j) ==
    /\ kind[j] = "install" /\ pc[j] = "except"
    /\ Write(j, failed_fields(exc[j]))
    /\ pc' = [pc EXCEPT ![j] = "done"]
    /\ UNCHANGED <<kind, exc, absorbed, inst, lnch, versions, call, jre>>

InstallJob(j, Packs, Outcomes) ==
    \/ install_start(j)
    \/ install_meta(j)
    \/ install_version(j)
    \/ install_archive(j)
    \/ install_extract(j, Packs)
    \/ pool_take(j)
    \/ _download_entry(j, Outcomes)
    \/ install_as_completed(j)
    \/ install_after_pool(j)
    \/ install_overrides(j)
    \/ install_manifest(j)
    \/ install_except(j)

---------------------------------------------------------------------------
(* _dedupe_asm_in_cmd *)

\* A classpath entry: a jar of org/ow2/asm/<art>/<major>.<minor>/, or any
\* other jar (art = "").
Asm(art, major, minor) == [art |-> art, ver |-> <<major, minor>>, name |-> art]

Jar(name) == [art |-> "", ver |-> <<0, 0>>, name |-> name]

\* A token of a command or a line of an argument file: its text, and its
\* entries when it is a classpath string.
Word(text) == [text |-> text, cp |-> <<>>]

Classpath(entries) == [text |-> "", cp |-> entries]

NoFile == [exists |-> FALSE, lines |-> <<>>]

ArgFile(lines) == [exists |-> TRUE, lines |-> lines]

\* line 498: re.compile rejects the pattern, whose last group "(?P<ver)" has
\* an unterminated name, with re.error.
pattern_compiles == FALSE

\* line 498: the entries the pattern is written for.
pat_match(e) == e.art # ""

\* lines 507-510 and 514-515: the entry sorted last among those of its artifact.
is_best(e, entries) ==
    \A i \in DOMAIN entries :
        pat_match(entries[i]) /\ entries[i].art = e.art
            => \/ e.ver[1] > entries[i].ver[1]
               \/ e.ver[1] = entries[i].ver[1] /\ e.ver[2] >= entries[i].ver[2]

\* lines 517-525: the entries kept, in their order.
RECURSIVE new_entries(_, _)
new_entries(rest, entries) ==
    IF rest = <<>> THEN <<>>
    ELSE (IF ~pat_match(Head(rest)) \/ is_best(Head(rest), entries)
          THEN <<Head(rest)>> ELSE <<>>) \o new_entries(Tail(rest), entries)

\* lines 495-525: the new classpath string, or the exception of line 498.
_dedupe_cp_string(cp_str) ==
    IF pattern_compiles
    THEN [raised |-> FALSE, value |-> Classpath(new_entries(cp_str.cp, cp_str.cp))]
    ELSE [raised |-> TRUE, value |-> cp_str]

\* lines 538 and 548: the first -cp or -classpath, 0 when there is none.
cp_index(tokens) ==
    LET at == {i \in DOMAIN tokens : tokens[i].text \in {"-cp", "-classpath"}} IN
    IF at = {} THEN 0 ELSE CHOOSE i \in at : \A k \in at : i <= k

\* token.startswith("@")
names_file(cmd) == \E i \in DOMAIN cmd : cmd[i].text = "@args"

\* lines 529-543: the argument file after the first loop; an exception of
\* the rewrite is passed over and the file is not written.
argfile_step(cmd, file) ==
    LET j == cp_index(file.lines) IN
    IF ~names_file(cmd) \/ ~file.exists \/ j = 0 \/ j + 1 > Len(file.lines)
    THEN [raised |-> FALSE, file |-> file]
    ELSE LET r == _dedupe_cp_string(file.lines[j + 1]) IN
         IF r.raised THEN [raised |-> TRUE, file |-> file]
         ELSE [raised |-> FALSE, file |-> [file EXCEPT !.lines[j + 1] = r.value]]

\* An except clause that gives the command back without its classpath string.
inline_step_dropping(cmd) ==
    LET i == cp_index(cmd) IN
    IF i = 0 \/ i + 1 > Len(cmd) THEN [raised |-> FALSE, cmd |-> cmd]
    ELSE LET r == _dedupe_cp_string(cmd[i + 1]) IN
         IF r.raised
         THEN [raised |-> TRUE, cmd |-> SubSeq(cmd, 1, i) \o SubSeq(cmd, i + 2, Len(cmd))]
         ELSE [raised |-> FALSE, cmd |-> [cmd EXCEPT ![i + 1] = r.value]]

\* lines 545-555: the inline classpath; an exception returns cmd as it is.
inline_step(cmd) ==
    LET i == cp_index(cmd) IN
    IF i = 0 \/ i + 1 > Len(cmd) THEN [raised |-> FALSE, cmd |-> cmd]
    ELSE LET r == _dedupe_cp_string(cmd[i + 1]) IN
         IF r.raised THEN [raised |-> TRUE, cmd |-> cmd]
         ELSE [raised |-> FALSE, cmd |-> [cmd EXCEPT ![i + 1] = r.value]]

\* lines 491-555: the command returned, the argument file left on disk, and
\* whether an exception was raised and caught on the way.
_dedupe_asm_in_cmd(cmd, file) ==
    LET a == argfile_step(cmd, file)
        b == inline_step(cmd)
    IN  [cmd |-> b.cmd, file |-> a.file, raised |-> a.raised \/ b.raised]

\* The command and the argument file get_minecraft_command hands over.
Given(cmd, file) == [cmd |-> cmd, file |-> file]

InlineCmd(flag, entries) ==
    Given(<<Word("java"), Word(flag), Classpath(entries), Word("Main")>>, NoFile)

FileCmd(flag, entries) ==
    Given(<<Word("java"), Word("@args")>>,
          ArgFile(<<Word("-Xmx2G"), Word(flag), Classpath(entries), Word("Main")>>))

PlainCmd == Given(<<Word("java"), Word("Main")>>, NoFile)

\* The sanitizer applied on its own.
apply_dedupe ==
    /\ call.fn = "_dedupe_asm_in_cmd" /\ ~call.done
    /\ call' = [call EXCEPT !.out = _dedupe_asm_in_cmd(call.arg.cmd, call.arg.file),
                            !.done = TRUE]
    /\ UNCHANGED <<JOBS, kind, pc, exc, absorbed, inst, lnch, versions, poll, jre>>

---------------------------------------------------------------------------
(* POST /api/instances/{slug}/launch *)

launch_instance(limit) ==
    /\ Cardinality(DOMAIN JOBS) < limit
    /\ \E job_id \in token_hex(DOMAIN JOBS) :
          /\ JOBS' = bind(JOBS, job_id, queued_record)
          /\ kind' = [kind EXCEPT ![job_id] = "launch"]
          /\ pc' = [pc EXCEPT ![job_id] = "queued"]
    /\ UNCHANGED <<exc, absorbed, inst, lnch, versions, poll, call, jre>>

---------------------------------------------------------------------------
(* _launch_instance_job *)

\* index["dependencies"]: the pins, "" for a key that is absent.
Deps(mc, fabric, quilt, forge, neoforge) ==
    [minecraft |-> mc, fabric |-> fabric, quilt |-> quilt, forge |-> forge,
     neoforge |-> neoforge]

NoDeps == Deps("", "", "", "", "")

\* The payload of AUTH_FILE (lines 1380-1389, 1520-1526): None, or a dict whose
\* values may be missing or empty ("" stands for both).
NoAuth == [present |-> FALSE, name |-> "", id |-> "", access_token |-> "",
           refresh_token |-> ""]

AuthPayload(id, access_token, refresh_token) ==
    [present |-> TRUE, name |-> "Steve", id |-> id, access_token |-> access_token,
     refresh_token |-> refresh_token]

\* What ms_account.complete_refresh answers: it raises, it returns something
\* that is not a dict, or it returns a dict; Absent is a key the dict lacks.
Absent == "(absent)"

RefreshRaises == [kind |-> "raises", id |-> Absent, access_token |-> Absent]

RefreshNotDict == [kind |-> "other", id |-> Absent, access_token |-> Absent]

Refreshed(id, access_token) ==
    [kind |-> "dict", id |-> id, access_token |-> access_token]

\* One launch's credentials: the stored payload, whether the Microsoft
\* account library and a client id are configured, and the refresh answer.
Login(stored, configured, answer) ==
    [stored |-> stored, configured |-> configured, answer |-> answer]

\* line 633: if ms_account and settings.ms_client_id and auth.get("refresh_token")
refresh_attempted(login) ==
    login.configured /\ login.stored.refresh_token # ""

\* lines 636-643: auth.update(...), refreshed.get(key, auth.get(key)).
auth_update(auth, refreshed) ==
    [auth EXCEPT
        !.id = IF refreshed.id = Absent THEN @ ELSE refreshed.id,
        !.access_token =
            IF refreshed.access_token = Absent THEN @ ELSE refreshed.access_token]

\* The dict the job holds at line 647.
auth_of(login) ==
    IF refresh_attempted(login) /\ login.answer.kind = "dict"
    THEN auth_update(login.stored, login.answer)
    ELSE login.stored

\* The test of line 649 with either value being enough.
valid_login_either(auth) == auth.id # "" \/ auth.access_token # ""

\* lines 647-649: uuid and access_token
valid_login(auth) == auth.id # "" /\ auth.access_token # ""

LnchInit ==
    [deps |-> NoDeps, version_id |-> NoVid, cb |-> FALSE, calls |-> 0,
     ecos |-> {}, given |-> Given(<<>>, NoFile), popen |-> <<>>,
     argfile |-> NoFile, caught |-> FALSE, spawned |-> FALSE,
     auth |-> NoAuth, refresh |-> "none", reported |-> NoVid,
     discovered |-> FALSE]

launch_running_record ==
    [status |-> "running", progress |-> 0, message |-> Msg("Preparing launch")]

\* The forge id with the loader version before the base version.
naive_version_id_loader_first(deps) ==
    IF deps.fabric # "" /\ deps.minecraft # ""
    THEN <<"fabric-loader", deps.fabric, deps.minecraft>>
    ELSE IF deps.quilt # "" /\ deps.minecraft # ""
    THEN <<"quilt-loader", deps.quilt, deps.minecraft>>
    ELSE IF deps.forge # "" /\ deps.minecraft # ""
    THEN <<"forge", deps.forge, deps.minecraft>>
    ELSE IF deps.neoforge # ""
    THEN <<"neoforge", deps.neoforge>>
    ELSE IF deps.minecraft # ""
    THEN <<deps.minecraft>>
    ELSE NoVid

\* lines 656-669: the version id the pins give, as the parts the f-string
\* joins with "-".
naive_version_id(deps) ==
    IF deps.fabric # "" /\ deps.minecraft # ""
    THEN <<"fabric-loader", deps.fabric, deps.minecraft>>
    ELSE IF deps.quilt # "" /\ deps.minecraft # ""
    THEN <<"quilt-loader", deps.quilt, deps.minecraft>>
    ELSE IF deps.forge # "" /\ deps.minecraft # ""
    THEN <<"forge", deps.minecraft, deps.forge>>
    ELSE IF deps.neoforge # ""
    THEN <<"neoforge", deps.neoforge>>
    ELSE IF deps.minecraft # ""
    THEN <<deps.minecraft>>
    ELSE NoVid

\* lines 705-714: the loader installer the elif chain calls.
loader_installer(deps) ==
    IF deps.fabric # "" /\ deps.minecraft # "" THEN "fabric"
    ELSE IF deps.quilt # "" /\ deps.minecraft # "" THEN "quilt"
    ELSE IF deps.forge # "" /\ deps.minecraft # "" THEN "forge"
    ELSE IF deps.neoforge # "" THEN "neoforge"
    ELSE "none"

\* A second chain that tries the loaders in the opposite order.
retry_installer_reversed(deps) ==
    IF deps.neoforge # "" THEN "neoforge"
    ELSE IF deps.forge # "" /\ deps.minecraft # "" THEN "forge"
    ELSE IF deps.quilt # "" /\ deps.minecraft # "" THEN "quilt"
    ELSE IF deps.fabric # "" /\ deps.minecraft # "" THEN "fabric"
    ELSE "none"

\* lines 717-724: the loader installer the elif chain of the except clause calls.
retry_installer(deps) ==
    IF deps.fabric # "" /\ deps.minecraft # "" THEN "fabric"
    ELSE IF deps.quilt # "" /\ deps.minecraft # "" THEN "quilt"
    ELSE IF deps.forge # "" /\ deps.minecraft # "" THEN "forge"
    ELSE IF deps.neoforge # "" THEN "neoforge"
    ELSE "none"

\* The loader installer a call in progress is made to: the first call passes
\* the callbacks, the call of the except clause does not.
loader_called(l) == IF l.cb THEN loader_installer(l.deps) ELSE retry_installer(l.deps)

\* The call in progress at position at ends: a loader call is remembered.
note_call(l, at) ==
    IF at = "l_loader_call" THEN [l EXCEPT !.ecos = @ \cup {loader_called(l)}] ELSE l

\* The f-string of a version id: its parts joined with "-".
RECURSIVE vid_str(_)
vid_str(vid) ==
    IF vid = <<>> THEN ""
    ELSE IF Len(vid) = 1 THEN vid[1]
    ELSE vid[1] \o "-" \o vid_str(Tail(vid))

\* The id an installer may leave or report instead of the naive one.
installer_version_id(deps) ==
    LET eco == loader_installer(deps) IN
    CASE eco = "fabric" -> <<"fabric-loader", deps.fabric, deps.minecraft>>
      [] eco = "quilt" -> <<"quilt-loader", deps.quilt, deps.minecraft>>
      [] eco = "forge" -> <<deps.minecraft, "forge", deps.forge>>
      [] eco = "neoforge" -> <<"neoforge", deps.neoforge>>
      [] OTHER -> NoVid

\* A test that is content with the version's directory.
_version_dir_exists(vid, store) == vid # NoVid /\ vid \in store.dirs

\* lines 690-693
_version_exists(vid, store) == vid # NoVid /\ vid \in store.json

\* A version is installed: its directory and its json exist.
add_version(store, vid) ==
    IF vid = NoVid THEN store
    ELSE [dirs |-> store.dirs \cup {vid}, json |-> store.json \cup {vid}]

EmptyStore == [dirs |-> {}, json |-> {}]

Store(complete, bare) == [dirs |-> complete \cup bare, json |-> complete]

\* line 746: name.endswith(f"-{mc_ver}") and a loader prefix.
discover_match(name, mc_ver) ==
    /\ Len(name) > 1
    /\ name[Len(name)] = mc_ver
    /\ \/ name[1] \in {"fabric-loader", "quilt-loader"}
       \/ name[1] \in {"forge", "neoforge"}

\* lines 738-750: the directories that match; the newest is taken, and the
\* modification times are the file system's.
candidates(store, mc_ver) == {d \in store.dirs : discover_match(d, mc_ver)}

\* A callback argument: a number, or a value int() rejects.
CbInt(n) == [numeric |-> TRUE, n |-> n]

CbBad == [numeric |-> FALSE, n |-> 0]

\* int(p * 0.8): the float product truncated towards zero.
trunc8(n) == IF n >= 0 THEN (8 * n) \div 10 ELSE 0 - ((8 * (0 - n)) \div 10)

Min(a, b) == IF a < b THEN a ELSE b

Max(a, b) == IF a > b THEN a ELSE b

\* The scaled value stored without the clamp to 10..95.
_set_progress_unclamped(p) ==
    LET n == IF p.numeric THEN p.n ELSE 0 IN
    10 + ((8 * n) \div 10)

\* lines 676-681
_set_progress(p) ==
    LET n == IF p.numeric THEN p.n ELSE 0 IN
    Min(95, Max(10, 10 + trunc8(n)))

after_loader(vid, store) ==
    IF _version_exists(vid, store) THEN "l_resolve" ELSE "l_last_call"

after_base(deps, vid, store) ==
    IF loader_installer(deps) # "none" THEN "l_loader_call" ELSE after_loader(vid, store)

after_prepare(deps, vid, store) ==
    IF ~_version_exists(<<deps.minecraft>>, store) THEN "l_base_call"
    ELSE after_base(deps, vid, store)

\* An installer is called with callback=callbacks first.
enter(l) == [l EXCEPT !.cb = TRUE, !.calls = 0]

\* line 603
launch_start(j) ==
    /\ kind[j] = "launch" /\ pc[j] = "queued"
    /\ JOBS' = bind(JOBS, j, launch_running_record)
    /\ pc' = [pc EXCEPT ![j] = "l_index"]
    /\ UNCHANGED <<kind, exc, absorbed, inst, lnch, versions, poll, call, jre>>

\* lines 605-624: the instance directory and the index the install left in it.
launch_index(j, Pins) ==
    /\ kind[j] = "launch" /\ pc[j] = "l_index"
    /\ \/ /\ \E t \in {"Instance not found",
                       "modrinth.index.json missing in instance. Reinstall the modpack.",
                       "JSONDecodeError"} : Raise(j, t)
          /\ UNCHANGED lnch
       \/ \E deps \in Pins :
             IF deps.minecraft = ""
             THEN /\ Raise(j, "Minecraft version missing from modrinth.index.json")
                  /\ UNCHANGED lnch
             ELSE /\ lnch' = [lnch EXCEPT ![j].deps = deps]
                  /\ Write(j, [message |-> Msg("Preparing bundled Java"), progress |-> 5])
                  /\ pc' = [pc EXCEPT ![j] = "l_prepare"]
                  /\ UNCHANGED exc
    /\ UNCHANGED <<kind, absorbed, inst, versions, call, jre>>

\* lines 625-671: the runtime, the credentials, the library, the version id.
launch_prepare(j, Logins) ==
    /\ kind[j] = "launch" /\ pc[j] = "l_prepare"
    /\ \/ \* line 626: the runtime cannot be provisioned
          /\ Raise(j, "ProvisioningError")
          /\ UNCHANGED <<lnch, absorbed>>
       \/ \E login \in Logins :
             LET auth == auth_of(login)
                 vid == naive_version_id(lnch[j].deps)
             IN
             IF ~login.stored.present
             THEN \* lines 630-632
                  /\ Raise(j, "Microsoft account required. Please sign in on the Settings page.")
                  /\ UNCHANGED <<lnch, absorbed>>
             ELSE IF refresh_attempted(login) /\ login.answer.kind = "raises"
             THEN \* lines 645-646: the refresh error is caught and another one raised
                  /\ Raise(j, "Authentication refresh failed")
                  /\ absorbed' = [absorbed EXCEPT ![j] = TRUE]
                  /\ lnch' = [lnch EXCEPT ![j].auth = login.stored,
                                          ![j].refresh = "raised"]
             ELSE IF ~valid_login(auth)
             THEN \* lines 649-650
                  /\ Raise(j, "Invalid login data. Please sign out and sign in again.")
                  /\ lnch' = [lnch EXCEPT ![j].auth = auth,
                                          ![j].refresh = IF refresh_attempted(login)
                                                         THEN "returned" ELSE "none"]
                  /\ UNCHANGED absorbed
             ELSE \/ \* lines 652-653
                     /\ Raise(j, "minecraft-launcher-lib not available.")
                     /\ UNCHANGED <<lnch, absorbed>>
                  \/ /\ lnch' = [lnch EXCEPT ![j] =
                                    [enter(@) EXCEPT
                                        !.version_id = vid, !.auth = auth,
                                        !.refresh = IF refresh_attempted(login)
                                                    THEN "returned" ELSE "none"]]
                     /\ Write(j, [message |-> MsgVid("Preparing version", vid),
                                  progress |-> 10])
                     /\ pc' = [pc EXCEPT ![j] = after_prepare(lnch[j].deps, vid, versions)]
                     /\ UNCHANGED <<exc, absorbed>>
    /\ UNCHANGED <<kind, inst, versions, call, jre>>

in_call(j) ==
    /\ kind[j] = "launch"
    /\ pc[j] \in {"l_base_call", "l_loader_call", "l_last_call"}

\* lines 673-674: setStatus and setMessage
_set_status(j, limit) ==
    /\ in_call(j) /\ lnch[j].cb /\ lnch[j].calls < limit
    /\ Write(j, [message |-> Msg("installer status")])
    /\ lnch' = [lnch EXCEPT ![j].calls = @ + 1]
    /\ UNCHANGED <<kind, pc, exc, absorbed, inst, versions, call, jre>>

\* lines 676-681: setProgress
set_progress(j, limit, Args) ==
    /\ in_call(j) /\ lnch[j].cb /\ lnch[j].calls < limit
    /\ \E p \in Args :
          /\ Write(j, [progress |-> _set_progress(p)])
          /\ absorbed' = [absorbed EXCEPT ![j] = @ \/ ~p.numeric]
    /\ lnch' = [lnch EXCEPT ![j].calls = @ + 1]
    /\ UNCHANGED <<kind, pc, exc, inst, versions, call, jre>>

\* except TypeError (lines 699, 715, 733): the installer is called again,
\* without the callbacks.
installer_type_error(j) ==
    /\ in_call(j) /\ lnch[j].cb
    /\ lnch' = [lnch EXCEPT ![j] = [note_call(@, pc[j]) EXCEPT !.cb = FALSE]]
    /\ absorbed' = [absorbed EXCEPT ![j] = TRUE]
    /\ UNCHANGED <<JOBS, kind, pc, exc, inst, versions, poll, call, jre>>

\* Any other exception of an installer, or any exception of the second call.
installer_raises(j) ==
    /\ in_call(j)
    /\ Raise(j, "VersionNotFound")
    /\ lnch' = [lnch EXCEPT ![j] = note_call(@, pc[j])]
    /\ UNCHANGED <<kind, absorbed, inst, versions, call, jre>>

\* lines 696-700: install_minecraft_version(mc_ver) returns.
base_returns(j) ==
    /\ kind[j] = "launch" /\ pc[j] = "l_base_call"
    /\ \E got \in {NoVid, <<lnch[j].deps.minecraft>>} :
          /\ versions' = add_version(versions, got)
          /\ pc' = [pc EXCEPT ![j] =
                      after_base(lnch[j].deps, lnch[j].version_id, versions')]
    /\ lnch' = [lnch EXCEPT ![j] = enter(@)]
    /\ UNCHANGED <<JOBS, kind, exc, absorbed, inst, poll, call, jre>>

\* An id that stays the naive one whatever the installer reports.
naive_wins(version_id, installed_vid) == version_id

\* lines 726-727: if isinstance(installed_vid, str) and installed_vid:
\*                    version_id = installed_vid
reported_wins(version_id, installed_vid) ==
    IF installed_vid # NoVid THEN installed_vid ELSE version_id

\* lines 703-727: the loader installer returns; a non-empty str result
\* replaces version_id.
loader_returns(j) ==
    /\ kind[j] = "launch" /\ pc[j] = "l_loader_call"
    /\ LET ids == {naive_version_id(lnch[j].deps), installer_version_id(lnch[j].deps)} IN
       \E got \in {NoVid} \cup ids, installed_vid \in {NoVid} \cup ids :
          LET vid == reported_wins(lnch[j].version_id, installed_vid) IN
          /\ versions' = add_version(versions, got)
          /\ lnch' = [lnch EXCEPT ![j] =
                        [enter(note_call(@, pc[j])) EXCEPT
                            !.version_id = vid, !.reported = installed_vid]]
          /\ pc' = [pc EXCEPT ![j] = after_loader(vid, versions')]
    /\ UNCHANGED <<JOBS, kind, exc, absorbed, inst, poll, call, jre>>

\* lines 729-734: install_minecraft_version(version_id) returns.
last_returns(j) ==
    /\ kind[j] = "launch" /\ pc[j] = "l_last_call"
    /\ \E got \in {NoVid, lnch[j].version_id} :
          versions' = add_version(versions, got)
    /\ pc' = [pc EXCEPT ![j] = "l_resolve"]
    /\ UNCHANGED <<JOBS, kind, exc, absorbed, inst, lnch, poll, call, jre>>

\* lines 736-765: discovery, the final check, the prune pass.
launch_resolve(j) ==
    /\ kind[j] = "launch" /\ pc[j] = "l_resolve"
    /\ LET found == IF _version_exists(lnch[j].version_id, versions) THEN {}
                    ELSE candidates(versions, lnch[j].deps.minecraft) IN
       \E vid \in (IF found = {} THEN {lnch[j].version_id} ELSE found) :
          /\ lnch' = [lnch EXCEPT ![j].version_id = vid,
                                  ![j].discovered = (found # {})]
          /\ IF ~_version_exists(vid, versions)
             THEN RaiseMsg(j, MsgVid("Version was not installed or found after installation attempts", vid))
             ELSE /\ \E removed \in BOOLEAN :
                        IF removed
                        THEN /\ Write(j, [message |-> Msg("Pruned duplicate ASM libs"),
                                          progress |-> 96])
                             /\ pc' = [pc EXCEPT ![j] = "l_build"]
                        ELSE /\ Write(j, [message |-> Msg("Building launch command"),
                                          progress |-> 96])
                             /\ pc' = [pc EXCEPT ![j] = "l_command"]
                  /\ UNCHANGED exc
    /\ UNCHANGED <<kind, absorbed, inst, versions, call, jre>>

\* line 765, after the prune pass reported removals.
launch_build(j) ==
    /\ kind[j] = "launch" /\ pc[j] = "l_build"
    /\ Write(j, [message |-> Msg("Building launch command"), progress |-> 96])
    /\ pc' = [pc EXCEPT ![j] = "l_command"]
    /\ UNCHANGED <<kind, exc, absorbed, inst, lnch, versions, call, jre>>

\* lines 766-776: get_minecraft_command gives the command and, for a long
\* classpath, its argument file; the sanitizer is applied to them.
launch_command(j, Cmds) ==
    /\ kind[j] = "launch" /\ pc[j] = "l_command"
    /\ \/ /\ Raise(j, "VersionNotFound")
          /\ UNCHANGED <<lnch, absorbed>>
       \/ \E g \in Cmds :
             LET r == _dedupe_asm_in_cmd(g.cmd, g.file) IN
             /\ lnch' = [lnch EXCEPT ![j] =
                           [@ EXCEPT !.given = g, !.popen = r.cmd,
                                     !.argfile = r.file, !.caught = r.raised]]
             /\ absorbed' = [absorbed EXCEPT ![j] = @ \/ r.raised]
             /\ pc' = [pc EXCEPT ![j] = "l_spawn"]
             /\ UNCHANGED <<JOBS, exc, poll>>
    /\ UNCHANGED <<kind, inst, versions, call, jre>>

\* lines 778-783: the log file is opened and the process started.
launch_spawn(j) ==
    /\ kind[j] = "launch" /\ pc[j] = "l_spawn"
    /\ \/ /\ Raise(j, "OSError")
          /\ UNCHANGED lnch
       \/ /\ lnch' = [lnch EXCEPT ![j].spawned = TRUE]
          /\ Write(j, [status |-> "completed", progress |-> 100,
                       message |-> Msg("Game process started")])
          /\ pc' = [pc EXCEPT ![j] = "done"]
          /\ UNCHANGED exc
    /\ UNCHANGED <<kind, absorbed, inst, versions, call, jre>>

\* lines 784-785
launch_except(j) ==
    /\ kind[j] = "launch" /\ pc[j] = "except"
    /\ Write(j, failed_fields(exc[j]))
    /\ pc' = [pc EXCEPT ![j] = "done"]
    /\ UNCHANGED <<kind, exc, absorbed, inst, lnch, versions, call, jre>>

LaunchJob(j, Pins, limit, Args, Cmds, Logins) ==
    \/ launch_start(j)
    \/ launch_index(j, Pins)
    \/ launch_prepare(j, Logins)
    \/ _set_status(j, limit)
    \/ set_progress(j, limit, Args)
    \/ installer_type_error(j)
    \/ installer_raises(j)
    \/ base_returns(j)
    \/ loader_returns(j)
    \/ last_returns(j)
    \/ launch_resolve(j)
    \/ launch_build(j)
    \/ launch_command(j, Cmds)
    \/ launch_spawn(j)
    \/ launch_except(j)

---------------------------------------------------------------------------
(* GET /api/jobs/{job_id}: the handler runs on the event loop's thread while
   the jobs run on worker threads, so a job may write between two of its
   reads. *)

\* The dict object the handler holds: the one the request bound (never
\* written again) or the one the task bound and keeps updating.
held(p) == IF p.dict = "request" THEN queued_record ELSE JOBS[p.job]

\* line 471: job = JOBS.get(job_id)
poll_get ==
    /\ poll.pc = "idle"
    /\ \E job_id \in JobIds :
          IF job_id \notin DOMAIN JOBS
          THEN poll' = [IdlePoll EXCEPT !.pc = "respond", !.job = job_id]
          ELSE poll' = [IdlePoll EXCEPT
                          !.pc = "status", !.job = job_id, !.found = TRUE,
                          !.dict = IF JOBS[job_id].status = "queued"
                                   THEN "request" ELSE "task",
                          !.versions = {JOBS[job_id]}]
    /\ UNCHANGED <<JOBS, kind, pc, exc, absorbed, inst, lnch, versions, call, jre>>

\* line 474
poll_status ==
    /\ poll.pc = "status"
    /\ poll' = [poll EXCEPT !.status = held(poll).status, !.pc = "progress"]
    /\ UNCHANGED <<JOBS, kind, pc, exc, absorbed, inst, lnch, versions, call, jre>>

\* line 475
poll_progress ==
    /\ poll.pc = "progress"
    /\ poll' = [poll EXCEPT !.progress = held(poll).progress, !.pc = "message"]
    /\ UNCHANGED <<JOBS, kind, pc, exc, absorbed, inst, lnch, versions, call, jre>>

\* line 476
poll_message ==
    /\ poll.pc = "message"
    /\ poll' = [poll EXCEPT !.message = held(poll).message, !.pc = "respond"]
    /\ UNCHANGED <<JOBS, kind, pc, exc, absorbed, inst, lnch, versions, call, jre>>

\* lines 473, 477-488: the response is built from the three values and sent.
poll_respond ==
    /\ poll.pc = "respond"
    /\ poll' = IdlePoll
    /\ UNCHANGED <<JOBS, kind, pc, exc, absorbed, inst, lnch, versions, call, jre>>

get_job_status ==
    \/ poll_get
    \/ poll_status
    \/ poll_progress
    \/ poll_message
    \/ poll_respond

---------------------------------------------------------------------------
(* Text.  A string is the sequence of its characters. *)

Digits == <<"0", "1", "2", "3", "4", "5", "6", "7", "8", "9">>

is_digit(c) == \E d \in DOMAIN Digits : Digits[d] = c

digit_value(c) == (CHOOSE d \in DOMAIN Digits : Digits[d] = c) - 1

\* str(n) for 0 <= n < 100
decimal(n) ==
    IF n < 10 THEN <<Digits[n + 1]>> ELSE <<Digits[(n \div 10) + 1], Digits[(n % 10) + 1]>>

\* int(p) succeeds: on the characters used here, p is a non-empty run of digits.
int_accepts(p) == p # <<>> /\ \A i \in DOMAIN p : is_digit(p[i])

RECURSIVE int_of(_)
int_of(p) ==
    IF p = <<>> THEN 0
    ELSE 10 * int_of(SubSeq(p, 1, Len(p) - 1)) + digit_value(p[Len(p)])

---------------------------------------------------------------------------
(* _parse_mc_version, _required_java_feature_version *)

\* line 77: re.split(r"[.\-]", ver), cur being the part read so far.
RECURSIVE re_split(_, _)
re_split(ver, cur) ==
    IF ver = <<>> THEN <<cur>>
    ELSE IF Head(ver) \in {".", "-"} THEN <<cur>> \o re_split(Tail(ver), <<>>)
    ELSE re_split(Tail(ver), Append(cur, Head(ver)))

\* lines 78-83: the numbers up to the first part int() rejects.
RECURSIVE leading_nums(_)
leading_nums(parts) ==
    IF parts = <<>> \/ ~int_accepts(Head(parts)) THEN <<>>
    ELSE <<int_of(Head(parts))>> \o leading_nums(Tail(parts))

\* lines 76-86
_parse_mc_version(ver) ==
    LET nums == leading_nums(re_split(ver, <<>>)) \o <<0, 0, 0>> IN
    SubSeq(nums, 1, 3)

\* Python's >= on two triples.
tuple_ge(a, b) ==
    \/ a[1] > b[1]
    \/ a[1] = b[1] /\ a[2] > b[2]
    \/ a[1] = b[1] /\ a[2] = b[2] /\ a[3] >= b[3]

\* The same table with Java 21 from 1.20.4 on.
_required_java_feature_version_early(mc_ver) ==
    LET v == _parse_mc_version(mc_ver) IN
    IF tuple_ge(v, <<1, 20, 4>>) THEN 21
    ELSE IF tuple_ge(v, <<1, 18, 0>>) THEN 17
    ELSE IF tuple_ge(v, <<1, 17, 0>>) THEN 16
    ELSE 8

\* lines 89-100
_required_java_feature_version(mc_ver) ==
    LET v == _parse_mc_version(mc_ver) IN
    IF tuple_ge(v, <<1, 20, 5>>) THEN 21
    ELSE IF tuple_ge(v, <<1, 18, 0>>) THEN 17
    ELSE IF tuple_ge(v, <<1, 17, 0>>) THEN 16
    ELSE 8

\* A helper function is about to be applied to arg.
Calling(fn, arg) == [fn |-> fn, arg |-> arg, out |-> <<>>, done |-> FALSE]

\* The launch job asks for the Java feature version of the pinned game version.
apply_required_java ==
    /\ call.fn = "_required_java_feature_version" /\ ~call.done
    /\ call' = [call EXCEPT !.out = _required_java_feature_version(call.arg.text),
                            !.done = TRUE]
    /\ UNCHANGED <<JOBS, kind, pc, exc, absorbed, inst, lnch, versions, poll, jre>>

---------------------------------------------------------------------------
(* _slugify *)

LowerLetters ==
    {"a", "b", "c", "d", "e", "f", "g", "h", "i", "j", "k", "l", "m", "n", "o",
     "p", "q", "r", "s", "t", "u", "v", "w", "x", "y", "z"}

\* The capital letters of the names explored, with their lower case.
UpperLetters == {"A", "B"}

lower(c) == IF c = "A" THEN "a" ELSE IF c = "B" THEN "b" ELSE c

\* The character class of line 222 written without its escaped hyphen.
kept_char_without_hyphen(c) ==
    \/ c \in LowerLetters \/ c \in UpperLetters \/ is_digit(c)
    \/ c \in {"_", ".", " "}

\* line 222: the characters [^a-zA-Z0-9\-_. ]+ does not remove.
kept_char(c) ==
    \/ c \in LowerLetters \/ c \in UpperLetters \/ is_digit(c)
    \/ c \in {"-", "_", ".", " "}

RECURSIVE remove_others(_)
remove_others(name) ==
    IF name = <<>> THEN <<>>
    ELSE (IF kept_char(Head(name)) THEN <<Head(name)>> ELSE <<>>)
             \o remove_others(Tail(name))

\* str.strip(): of the characters kept, only the space is white space.
RECURSIVE lstrip(_)
lstrip(t) == IF t # <<>> /\ Head(t) = " " THEN lstrip(Tail(t)) ELSE t

RECURSIVE rstrip(_)
rstrip(t) ==
    IF t # <<>> /\ t[Len(t)] = " " THEN rstrip(SubSeq(t, 1, Len(t) - 1)) ELSE t

strip(t) == rstrip(lstrip(t))

\* line 223: re.sub(r"[\s_]+", "-", s), each run of spaces and underscores
\* becoming one hyphen; in_run says the character before belonged to a run.
RECURSIVE hyphenate(_, _)
hyphenate(t, in_run) ==
    IF t = <<>> THEN <<>>
    ELSE IF Head(t) \in {" ", "_"}
    THEN (IF in_run THEN <<>> ELSE <<"-">>) \o hyphenate(Tail(t), TRUE)
    ELSE <<Head(t)>> \o hyphenate(Tail(t), FALSE)

\* line 224: secrets.token_hex(4), eight hexadecimal digits.
token_hex_4 ==
    {<<"0", "0", "0", "0", "0", "0", "0", "0">>, <<"9", "f", "0", "3", "a", "c", "7", "e">>}

\* lines 221-224, hex being the token drawn for a name that leaves nothing.
_slugify(name, hex) ==
    LET t == strip(remove_others(name))
        u == hyphenate([i \in DOMAIN t |-> lower(t[i])], FALSE)
    IN  IF u # <<>> THEN u ELSE <<"i", "n", "s", "t", "a", "n", "c", "e", "-">> \o hex

\* The install job derives the instance directory from the instance name.
apply_slugify ==
    /\ call.fn = "_slugify" /\ ~call.done
    /\ \E hex \in token_hex_4 :
          call' = [call EXCEPT !.out = _slugify(call.arg, hex), !.done = TRUE]
    /\ UNCHANGED <<JOBS, kind, pc, exc, absorbed, inst, lnch, versions, poll, jre>>

---------------------------------------------------------------------------
(* _ensure_adoptium_jre *)

\* The instance roots and the Java feature versions the provisioner is asked for.
Roots == {"slug", "other"}

Features == {17, 21}

\* jre_dir / "bin/java" of one instance root and one feature version.
java_bin(root, feature) == <<root, feature>>

NoEnsure ==
    [made |-> FALSE, root |-> "", feature |-> 0, hit |-> FALSE, requests |-> 0,
     downloads |-> 0, ok |-> FALSE]

\* One call: whether java_bin existed on entry, the HTTP requests it sent, the
\* archive downloads it began, and whether it returned the path.
Ensure(root, feature, hit, requests, downloads, ok) ==
    [made |-> TRUE, root |-> root, feature |-> feature, hit |-> hit,
     requests |-> requests, downloads |-> downloads, ok |-> ok]

JreInit == [present |-> {}, prev |-> NoEnsure, last |-> NoEnsure, n |-> 0]

\* A test that never finds the runtime.
never_exists(present, root, feature) == FALSE

\* line 131: java_bin.exists()
java_bin_exists(present, root, feature) == java_bin(root, feature) \in present

\* The call is added to the record of the last two calls.
ensured(world, c, present) ==
    [present |-> present, prev |-> world.last, last |-> c, n |-> world.n + 1]

\* lines 129-132: the runtime is there; its path is returned.
ensure_cached(limit) ==
    /\ jre.n < limit
    /\ \E root \in Roots, feature \in Features :
          /\ java_bin_exists(jre.present, root, feature)
          /\ jre' = ensured(jre, Ensure(root, feature, TRUE, 0, 0, TRUE), jre.present)
    /\ UNCHANGED <<JOBS, kind, pc, exc, absorbed, inst, lnch, versions, poll, call>>

\* lines 134-212, with the outcome the network and the archive give:
\*   "api"     the asset query fails (lines 141-142)
\*   "assets"  no asset, or none with a link (lines 144-169)
\*   "stream"  the archive download fails (lines 175-179)
\*   "extract" the archive cannot be extracted, or holds no bin/java (lines 181-196)
\*   "copy"    the copy into jre_dir stops half way (lines 198-203)
\*   "ok"      the runtime is in place (lines 205-212)
ensure_requests(outcome) == IF outcome \in {"api", "assets"} THEN 1 ELSE 2

ensure_downloads(outcome) == IF outcome \in {"api", "assets"} THEN 0 ELSE 1

ensure_download(limit) ==
    /\ jre.n < limit
    /\ \E root \in Roots, feature \in Features,
          outcome \in {"api", "assets", "stream", "extract", "copy", "ok"} :
          /\ ~java_bin_exists(jre.present, root, feature)
          /\ \E present \in
                 (IF outcome = "ok" THEN {jre.present \cup {java_bin(root, feature)}}
                  ELSE IF outcome = "copy"
                  THEN {jre.present, jre.present \cup {java_bin(root, feature)}}
                  ELSE {jre.present}) :
                jre' = ensured(jre,
                               Ensure(root, feature, FALSE, ensure_requests(outcome),
                                      ensure_downloads(outcome), outcome = "ok"),
                               present)
    /\ UNCHANGED <<JOBS, kind, pc, exc, absorbed, inst, lnch, versions, poll, call>>

_ensure_adoptium_jre(limit) ==
    \/ ensure_cached(limit)
    \/ ensure_download(limit)

---------------------------------------------------------------------------
(* _prune_asm_libraries: libraries/org/ow2/asm of the shared store is a map
   from the artifact directories to their entries, an entry being a name and
   whether it is a directory. *)

\* lines 565-571
artifacts == {"asm", "asm-commons", "asm-tree", "asm-util", "asm-analysis"}

DirEntry(name) == [name |-> name, dir |-> TRUE]

FileEntry(name) == [name |-> name, dir |-> FALSE]

\* line 582: ver.split("."), cur being the part read so far.
RECURSIVE split_dots(_, _)
split_dots(ver, cur) ==
    IF ver = <<>> THEN <<cur>>
    ELSE IF Head(ver) = "." THEN <<cur>> \o split_dots(Tail(ver), <<>>)
    ELSE split_dots(Tail(ver), Append(cur, Head(ver)))

\* line 582: int(p) for the parts with p.isdigit(), the others being left out.
RECURSIVE digit_parts(_)
digit_parts(parts) ==
    IF parts = <<>> THEN <<>>
    ELSE (IF int_accepts(Head(parts)) THEN <<int_of(Head(parts))>> ELSE <<>>)
             \o digit_parts(Tail(parts))

nums(ver) == digit_parts(split_dots(ver, <<>>))

\* Python's < on two tuples of integers.
RECURSIVE tuple_lt(_, _)
tuple_lt(a, b) ==
    IF b = <<>> THEN FALSE
    ELSE IF a = <<>> THEN TRUE
    ELSE IF Head(a) # Head(b) THEN Head(a) < Head(b)
    ELSE tuple_lt(Tail(a), Tail(b))

\* The pass keeping the first directory of the sorted list.
keep_first(found) ==
    {v \in found : \A w \in found : ~tuple_lt(nums(w.name), nums(v.name))}

\* lines 586-587: versions.sort(); keep = versions[-1][1].  Directories with
\* equal nums are ordered by their paths; either may be the last.
keep(found) ==
    {v \in found : \A w \in found : ~tuple_lt(nums(v.name), nums(w.name))}

\* lines 574-593 for one artifact directory: the entries it may be left with.
prune_artifact(entries) ==
    LET found == {e \in entries : e.dir} IN
    IF Cardinality(found) <= 1 THEN {entries}
    ELSE {(entries \ found) \cup {k} : k \in keep(found)}

\* The paths of the entries of a store.
listing(libs) == UNION {{<<art, e.name>> : e \in libs[art]} : art \in DOMAIN libs}

\* lines 572-593: the loop over the artifacts, todo being those still to visit;
\* an artifact without a directory is passed over.
RECURSIVE prune_loop(_, _)
prune_loop(libs, todo) ==
    IF todo = {} THEN {libs}
    ELSE LET art == CHOOSE a \in todo : TRUE IN
         UNION {prune_loop([libs EXCEPT ![art] = left], todo \ {art}) :
                   left \in prune_artifact(libs[art])}

\* lines 558-599: the stores the pass may leave, each with the removed list.
_prune_asm_libraries(libs) ==
    {[libs |-> after, removed |-> listing(libs) \ listing(after)] :
        after \in prune_loop(libs, artifacts \cap DOMAIN libs)}

\* line 759: removed = _prune_asm_libraries(MC_DIR)
apply_prune ==
    /\ call.fn = "_prune_asm_libraries" /\ ~call.done
    /\ \E r \in _prune_asm_libraries(call.arg) :
          call' = [call EXCEPT !.out = r, !.done = TRUE]
    /\ UNCHANGED <<JOBS, kind, pc, exc, absorbed, inst, lnch, versions, poll, jre>>

---------------------------------------------------------------------------
(* Specifications. *)

Entries == {Entry(p, n) : p \in {PathA, PathB, PathUp, PathAbs, NoPath}, n \in 0..1}

Overlays == {NoOverrides, Overrides({}), Overrides({PathA})}

InstallPacks == {Pack(e, o) : e \in EntryLists(Entries, MaxFiles), o \in Overlays}

Outcomes == {"mkdir", "status", "body", "ok"}

\* The pins of a persisted index.
LaunchPins ==
    {Deps("", "", "", "", ""), Deps("1.20.1", "", "", "", ""),
     Deps("1.20.1", "0.15.0", "", "", ""), Deps("1.20.1", "", "0.21.0", "", ""),
     Deps("1.20.1", "", "", "47.2.0", ""), Deps("1.20.1", "", "", "", "20.4.80"),
     Deps("1.20.1", "0.15.0", "", "47.2.0", ""),
     Deps("1.20.1", "0.15.0", "0.21.0", "47.2.0", "20.4.80"),
     Deps("1.20.6", "", "", "", "")}

\* What MC_DIR / "versions" holds when the process starts.
LaunchStores ==
    {EmptyStore,
     Store({<<"1.20.1">>}, {}),
     Store({<<"1.20.1">>, <<"quilt-loader", "0.21.0", "1.20.1">>}, {}),
     Store({<<"1.20.1">>}, {<<"fabric-loader", "0.15.0", "1.20.1">>})}

\* The commands get_minecraft_command builds.
LaunchCmds ==
    {PlainCmd,
     InlineCmd("-cp", <<Asm("asm", 9, 1), Jar("a"), Asm("asm", 9, 5)>>),
     FileCmd("-cp", <<Asm("asm", 9, 5), Jar("a"), Asm("asm", 9, 1)>>),
     Given(<<Word("java"), Word("@args"), Word("-classpath"),
             Classpath(<<Jar("a"), Asm("asm-tree", 9, 1)>>)>>,
           ArgFile(<<Word("-cp"), Classpath(<<Asm("asm", 9, 1), Asm("asm", 9, 5)>>)>>))}

CallbackArgs == {CbInt(0 - 30), CbInt(0), CbInt(40), CbInt(500), CbBad}

\* The credentials of a launch: every stored payload with every refresh answer.
StoredPayloads ==
    {NoAuth, AuthPayload("u1", "t1", "r1"), AuthPayload("", "t1", "r1"),
     AuthPayload("u1", "", "r1"), AuthPayload("u1", "t1", "")}

RefreshAnswers ==
    {RefreshRaises, RefreshNotDict}
        \cup {Refreshed(id, t) : id \in {Absent, "", "u2"}, t \in {Absent, "", "t2"}}

Logins ==
    {Login(a, c, r) : a \in StoredPayloads, c \in BOOLEAN, r \in RefreshAnswers}

\* No payload, one without an account id, a refresh that raises, and a signed-in
\* account whose token is refreshed.
SmallLogins ==
    {Login(NoAuth, TRUE, RefreshNotDict),
     Login(AuthPayload("", "t1", ""), FALSE, RefreshNotDict),
     Login(AuthPayload("u1", "t1", "r1"), TRUE, RefreshRaises),
     Login(AuthPayload("u1", "t1", "r1"), TRUE, Refreshed(Absent, "t2"))}

InitWith(Stores) ==
    /\ versions \in Stores
    /\ lnch = [j \in JobIds |-> LnchInit]
    /\ JOBS = <<>>
    /\ kind = [j \in JobIds |-> "none"]
    /\ pc = [j \in JobIds |-> "none"]
    /\ exc = [j \in JobIds |-> NoExc]
    /\ absorbed = [j \in JobIds |-> FALSE]
    /\ inst = [j \in JobIds |-> InstInit]
    /\ poll = IdlePoll
    /\ call = NoCall
    /\ jre = JreInit

InitInstall == InitWith({EmptyStore})

NextInstall ==
    \/ install_modpack(1)
    \/ \E j \in JobIds : InstallJob(j, InstallPacks, Outcomes)

SpecInstall == InitInstall /\ [][NextInstall]_vars

InitLaunch == InitWith(LaunchStores)

NextLaunch ==
    \/ launch_instance(1)
    \/ \E j \in JobIds : LaunchJob(j, LaunchPins, MaxCallbacks, CallbackArgs, LaunchCmds, SmallLogins)

SpecLaunch == InitLaunch /\ [][NextLaunch]_vars

\* Several jobs of both kinds side by side, on small packs and pins.
SmallPacks ==
    {Pack(e, o) : e \in EntryLists({Entry(PathA, 1)}, SmallFiles),
                  o \in {NoOverrides, Overrides({PathA})}}

SmallPins == {Deps("1.20.1", "0.15.0", "", "", "")}

SmallArgs == {CbInt(0 - 30), CbInt(500)}

SmallCmds == {InlineCmd("-cp", <<Asm("asm", 9, 1), Jar("a"), Asm("asm", 9, 5)>>)}

Init == InitWith({EmptyStore})

Next ==
    \/ install_modpack(Cardinality(JobIds))
    \/ launch_instance(Cardinality(JobIds))
    \/ \E j \in JobIds : InstallJob(j, SmallPacks, {"status", "ok"})
    \/ \E j \in JobIds : LaunchJob(j, SmallPins, SmallCallbacks, SmallArgs, SmallCmds, SmallLogins)

Spec == Init /\ [][Next]_vars

\* One install job whose manifest has more entries than the pool has threads.
PoolPath(i) == [abs |-> FALSE, parts |-> [k \in 1..i |-> "d"] \o <<"f.jar">>]

PoolPacks ==
    {Pack([i \in 1..k |-> Entry(PoolPath(i), 1)], NoOverrides) : k \in 0..PoolFiles}
        \cup {Pack(<<>>, Overrides({}))}

NextPool ==
    \/ install_modpack(1)
    \/ \E j \in JobIds : InstallJob(j, PoolPacks, {"ok"})

SpecPool == InitInstall /\ [][NextPool]_vars

\* One job of either kind, its background task and its pool threads being
\* scheduled again and again until the task returns, and every call they make
\* returning or raising.
LivePacks ==
    {Pack(e, o) : e \in EntryLists({Entry(PathA, 1), Entry(NoPath, 1)}, MaxFiles),
                  o \in {NoOverrides, Overrides({PathA})}}

LivePins ==
    {Deps("1.20.1", "", "", "", ""), Deps("1.20.1", "0.15.0", "", "", ""),
     Deps("1.20.1", "", "", "47.2.0", "")}

InitLive == InitWith({EmptyStore, Store({<<"1.20.1">>}, {<<"fabric-loader", "0.15.0", "1.20.1">>})})

NextLive ==
    \/ install_modpack(1)
    \/ launch_instance(1)
    \/ \E j \in JobIds : InstallJob(j, LivePacks, Outcomes)
    \/ \E j \in JobIds : LaunchJob(j, LivePins, SmallCallbacks, SmallArgs, SmallCmds, SmallLogins)

Fairness ==
    \A j \in JobIds :
        /\ WF_vars(InstallJob(j, LivePacks, Outcomes))
        /\ WF_vars(LaunchJob(j, LivePins, SmallCallbacks, SmallArgs, SmallCmds, SmallLogins))

SpecLive == InitLive /\ [][NextLive]_vars /\ Fairness

\* One launch job under every credential scenario.
NextAuth ==
    \/ launch_instance(1)
    \/ \E j \in JobIds : LaunchJob(j, SmallPins, SmallCallbacks, SmallArgs, SmallCmds, Logins)

SpecAuth == Init /\ [][NextAuth]_vars

\* One job and the status poll of the front end.
NextPoll ==
    \/ install_modpack(1)
    \/ launch_instance(1)
    \/ \E j \in JobIds : InstallJob(j, SmallPacks, {"status", "ok"})
    \/ \E j \in JobIds : LaunchJob(j, SmallPins, SmallCallbacks, SmallArgs, SmallCmds, SmallLogins)
    \/ get_job_status

SpecPoll == Init /\ [][NextPoll]_vars

\* The runtime provisioner called several times, some runtimes being on disk
\* from an earlier run of the launcher.
IdleJobs ==
    /\ versions = EmptyStore
    /\ lnch = [j \in JobIds |-> LnchInit]
    /\ JOBS = <<>>
    /\ kind = [j \in JobIds |-> "none"]
    /\ pc = [j \in JobIds |-> "none"]
    /\ exc = [j \in JobIds |-> NoExc]
    /\ absorbed = [j \in JobIds |-> FALSE]
    /\ inst = [j \in JobIds |-> InstInit]
    /\ poll = IdlePoll

InitJre ==
    /\ IdleJobs
    /\ call = NoCall
    /\ \E present \in {{}} \cup {{java_bin(r, f)} : r \in Roots, f \in Features} :
          jre = [JreInit EXCEPT !.present = present]

NextJre == _ensure_adoptium_jre(MaxEnsure)

SpecJre == InitJre /\ [][NextJre]_vars

\* The game versions of the bound, each written in full (1.20.5), without a
\* zero patch (1.21), with a suffix (1.20.5-pre1) or with both (1.21-rc1).
Triples == {<<a, b, c>> : a \in 0..MaxMajor, b \in 0..MaxMinor, c \in 0..MaxPatch}

full_text(v) == decimal(v[1]) \o <<".">> \o decimal(v[2]) \o <<".">> \o decimal(v[3])

short_text(v) == decimal(v[1]) \o <<".">> \o decimal(v[2])

VersionTexts(v) ==
    {full_text(v), full_text(v) \o <<"-", "p", "r", "e", "1">>}
        \cup (IF v[3] = 0
              THEN {short_text(v), short_text(v) \o <<"-", "r", "c", "1">>}
              ELSE {})

InitJava ==
    /\ IdleJobs
    /\ jre = JreInit
    /\ \E v \in Triples : \E text \in VersionTexts(v) :
          call = Calling("_required_java_feature_version", [version |-> v, text |-> text])

NextJava == apply_required_java

SpecJava == InitJava /\ [][NextJava]_vars

\* The sanitizer applied to commands whose classpath, inline or in the
\* argument file, holds up to MaxCp entries.
CpEntries == {Jar("a"), Jar("b"), Asm("asm", 9, 1), Asm("asm", 9, 5), Asm("asm-tree", 9, 5)}

Classpaths == UNION {[1..k -> CpEntries] : k \in 0..MaxCp}

InitSanitize ==
    /\ IdleJobs
    /\ jre = JreInit
    /\ \E g \in {PlainCmd}
                 \cup {InlineCmd(f, e) : f \in {"-cp", "-classpath"}, e \in Classpaths}
                 \cup {FileCmd(f, e) : f \in {"-cp", "-classpath"}, e \in Classpaths} :
          call = Calling("_dedupe_asm_in_cmd", g)

NextSanitize == apply_dedupe

SpecSanitize == InitSanitize /\ [][NextSanitize]_vars

\* The instance names: up to MaxName characters, among them a capital, a
\* digit, the separators and a character outside ASCII letters and digits.
NameChars == {"A", "b", "7", "-", "_", ".", " ", "!"}

Names == UNION {[1..k -> NameChars] : k \in 0..MaxName}

InitSlug ==
    /\ IdleJobs
    /\ jre = JreInit
    /\ \E name \in Names : call = Calling("_slugify", name)

NextSlug == apply_slugify

SpecSlug == InitSlug /\ [][NextSlug]_vars

\* The shared library store before a prune pass: two known artifacts and one
\* the pass does not know, each with any of four entries.
VersionNames ==
    {<<"9", ".", "1">>, <<"9", ".", "1", "0">>, <<"9", ".", "5", "-", "b">>}

ArtifactEntries ==
    SUBSET ({DirEntry(n) : n \in VersionNames} \cup {FileEntry(<<"m", ".", "x">>)})

LibraryStores ==
    UNION {[D -> ArtifactEntries] : D \in SUBSET {"asm", "asm-tree", "asm-debug-all"}}

InitPrune ==
    /\ IdleJobs
    /\ jre = JreInit
    /\ \E libs \in LibraryStores : call = Calling("_prune_asm_libraries", libs)

NextPrune == apply_prune

SpecPrune == InitPrune /\ [][NextPrune]_vars

---------------------------------------------------------------------------
(* Properties of the job records. *)

terminal(rec) == rec.status \in {"completed", "failed"}

install_jobs == {j \in DOMAIN JOBS : kind[j] = "install"}

launch_jobs == {j \in DOMAIN JOBS : kind[j] = "launch"}

\* C1: once a job record is completed or failed, no step of any install or
\* launch task, its own or another job's, changes that record again.
C1_TerminalRecordIsFinal ==
    [][\A j \in DOMAIN JOBS : terminal(JOBS[j]) => JOBS'[j] = JOBS[j]]_vars

\* C1 at work: one job has ended while the task of another job is still
\* between its first and its last write.
C1_Witness ==
    \E j \in DOMAIN JOBS, k \in DOMAIN JOBS :
        /\ j # k
        /\ pc[j] = "done" /\ terminal(JOBS[j])
        /\ JOBS[k].status = "running" /\ JOBS[k].progress > 0

\* C2: the progress of an install job never decreases, however the download
\* workers interleave, and a completed install job shows progress 100.
C2_InstallProgressMonotone ==
    /\ [][\A j \in install_jobs : JOBS'[j].progress >= JOBS[j].progress]_vars
    /\ [](\A j \in install_jobs : JOBS[j].status = "completed" => JOBS[j].progress = 100)

\* C2 at work: the second entry of a manifest finished before the first one
\* did, and its completion has been counted.
C2_Witness ==
    \E j \in install_jobs :
        /\ pc[j] = "i_pool" /\ Len(inst[j].fut) = 2
        /\ inst[j].fut[1] = "running" /\ finished(inst[j].fut[2])
        /\ inst[j].done = 1 /\ JOBS[j].progress = 55

\* C3: after a launch job is running its progress never decreases, whatever
\* progress values the installer callbacks report.
C3_LaunchProgressMonotone ==
    [][\A j \in launch_jobs :
          JOBS[j].status = "running" => JOBS'[j].progress >= JOBS[j].progress]_vars

\* The entries of job j that name a path and at least one URL.
downloadable(j) ==
    {i \in DOMAIN inst[j].files_entries :
        /\ inst[j].files_entries[i].path # NoPath
        /\ inst[j].files_entries[i].downloads > 0}

\* The entries of job j whose target path holds a file.
on_disk(j) ==
    {i \in DOMAIN inst[j].files_entries :
        /\ inst[j].files_entries[i].path # NoPath
        /\ target_path(inst[j].files_entries[i].path) \in DOMAIN inst[j].disk}

\* C4 as stated: an install job whose archive and index were fetched and
\* parsed ends completed with the message "Install complete".
C4_ParsedJobCompletes ==
    \A j \in install_jobs :
        pc[j] = "done" /\ inst[j].parsed
            => JOBS[j].status = "completed" /\ JOBS[j].message = Msg("Install complete")

\* C4: an install job whose archive and index were fetched and parsed ends
\* completed with the message "Install complete" whatever entries fail or lack
\* a path or a URL list, unless a step that is not an entry's download raises:
\* saving the index copy, copying the overrides, writing instance.json.
C4_EntryFailuresDoNotFailJob ==
    \A j \in install_jobs :
        pc[j] = "done" /\ inst[j].parsed
            => IF exc[j].raised
               THEN exc[j].at \in {"i_extract", "i_overrides", "i_manifest"}
               ELSE JOBS[j].status = "completed" /\ JOBS[j].message = Msg("Install complete")

\* C4 at work: a completed job of two entries, one whose download raised in
\* its worker and one that names no path or no URL.
C4_Witness ==
    \E j \in install_jobs :
        /\ pc[j] = "done" /\ JOBS[j].status = "completed"
        /\ Len(inst[j].fut) = 2
        /\ \E i \in downloadable(j) : inst[j].fut[i] \in {"false", "raised"}
        /\ \E i \in DOMAIN inst[j].fut : i \notin downloadable(j)

\* C5: for a completed install of N entries at distinct paths inside the
\* instance, K of which failed, exactly the N - K entries that succeeded have a
\* file at their path (no overrides file is involved).
C5_FailedEntryLeavesNoFile ==
    \A j \in install_jobs :
        LET e == inst[j].files_entries
            N == Len(e)
            K == Cardinality({i \in DOMAIN e : inst[j].fut[i] # "true"})
        IN  (/\ pc[j] = "done" /\ JOBS[j].status = "completed"
             /\ inst[j].overrides.files = {}
             /\ downloadable(j) = DOMAIN e
             /\ \A i \in DOMAIN e : in_instance(target_path(e[i].path))
             /\ \A i \in DOMAIN e, k \in DOMAIN e : i # k => e[i].path # e[k].path)
            => Cardinality(on_disk(j)) = N - K

\* C6: every file an install job has written lies inside the instance's root
\* directory.
C6_FilesStayInInstance ==
    \A j \in install_jobs :
        \A loc \in DOMAIN inst[j].disk : in_instance(loc)

\* C7: at most 10 entry downloads of an install job are in progress at once,
\* however many entries the manifest lists, and no download is in progress or
\* waiting outside the pool stage of the job.
C7_AtMostTenDownloads ==
    \A j \in install_jobs :
        /\ Cardinality(running(j)) <= 10
        /\ pc[j] # "i_pool" => \A i \in DOMAIN inst[j].fut : finished(inst[j].fut[i])

\* C7 at work: ten downloads are in progress and an eleventh entry waits.
C7_Witness ==
    \E j \in install_jobs :
        /\ Cardinality(running(j)) = 10
        /\ \E i \in DOMAIN inst[j].fut : inst[j].fut[i] = "pending"

\* C8 as stated: a job in which any step raised, whether or not the step
\* handled the exception itself, ends failed with the exception's text.
C8_AnyExceptionFailsJob ==
    \A j \in DOMAIN JOBS :
        pc[j] = "done" /\ (exc[j].raised \/ absorbed[j])
            => /\ JOBS[j].status = "failed"
               /\ exc[j].raised => JOBS[j].message = exc[j].text

\* C8: an exception that leaves a step of an install or launch job (one the
\* step does not handle itself) is at the job's handler or handled by it; the
\* job is never completed, and it ends failed with the exception's text.
C8_UnhandledExceptionFailsJob ==
    \A j \in DOMAIN JOBS :
        exc[j].raised
            => /\ pc[j] \in {"except", "done"}
               /\ JOBS[j].status # "completed"
               /\ pc[j] = "done"
                    => JOBS[j].status = "failed" /\ JOBS[j].message = exc[j].text

\* C8 at work: an install job and a launch job have both ended in the handler.
C8_Witness ==
    \E j \in install_jobs, k \in launch_jobs :
        /\ pc[j] = "done" /\ exc[j].raised /\ JOBS[j].status = "failed"
        /\ pc[k] = "done" /\ exc[k].raised /\ JOBS[k].status = "failed"

\* C9: every record of the registry has one of the four statuses and an
\* integer progress from 0 to 100.
C9_RecordWellFormed ==
    \A j \in DOMAIN JOBS :
        /\ JOBS[j].status \in {"queued", "running", "completed", "failed"}
        /\ JOBS[j].progress \in 0..100

\* C9 at work: a progress callback reported 500 to a launch job, which shows
\* 95, next to an install job that has completed.
C9_Witness ==
    \E j \in launch_jobs, k \in install_jobs :
        /\ JOBS[j].progress = 95 /\ JOBS[j].status = "running"
        /\ JOBS[k].status = "completed" /\ JOBS[k].progress = 100

\* C10: the triple a status poll returns is the job record as it stood at
\* some moment of the poll, never a mix of two versions of the record.
C10_PollNeverTorn ==
    poll.pc = "respond" /\ poll.found
        => [status |-> poll.status, progress |-> poll.progress,
            message |-> poll.message] \in poll.versions

---------------------------------------------------------------------------
(* Properties of the runtime provisioner. *)

\* Two calls in sequence for the same instance root and feature version, the
\* first of which returned the path.
same_runtime_twice ==
    /\ jre.prev.made /\ jre.last.made
    /\ jre.prev.ok
    /\ jre.prev.root = jre.last.root /\ jre.prev.feature = jre.last.feature

\* C12 as stated: two such calls perform exactly one network download in
\* total, and the second one sends no request.
C12_ExactlyOneDownload ==
    same_runtime_twice
        => /\ jre.prev.downloads + jre.last.downloads = 1
           /\ jre.last.ok /\ jre.last.requests = 0

\* C12: of two such calls the second returns the path without any network
\* request; the first performs one download when the runtime was not on disk
\* before it and none when it was, so the two perform at most one.
C12_SecondCallIsCached ==
    same_runtime_twice
        => /\ jre.last.ok /\ jre.last.requests = 0 /\ jre.last.downloads = 0
           /\ jre.prev.downloads = (IF jre.prev.hit THEN 0 ELSE 1)

\* C12 at work: the first call downloaded the runtime, the second was made.
C12_Witness ==
    /\ same_runtime_twice
    /\ ~jre.prev.hit /\ jre.prev.downloads = 1
    /\ jre.last.hit

---------------------------------------------------------------------------
(* Properties of the version resolver. *)

\* The matching directories of the store that hold their json.
installed_matches(j) ==
    {c \in candidates(versions, lnch[j].deps.minecraft) : _version_exists(c, versions)}

\* C13: when the version id is not installed after the last-resort installer
\* attempt, however that attempt ended, the job scans the store and uses a
\* matching installed id when there is one: with such an id in the store the
\* job does not fail in the last-resort attempt or in the resolution.
C13_LastResortThenDiscovery ==
    \A j \in launch_jobs :
        pc[j] = "done" /\ installed_matches(j) # {}
            => ~(exc[j].raised /\ exc[j].at \in {"l_last_call", "l_resolve"})

\* C14: a job that went through the whole fallback chain and found no
\* installed version id ends failed with a message naming the id computed
\* from the pins.
C14_FailureNamesComputedId ==
    \A j \in launch_jobs :
        pc[j] = "done" /\ exc[j].raised /\ exc[j].at = "l_resolve"
            => /\ JOBS[j].status = "failed"
               /\ JOBS[j].message.vid = naive_version_id(lnch[j].deps)

\* C15: a launch job calls the installers of at most one loader ecosystem,
\* whatever pins the index holds and however the installer calls end.
C15_OneLoaderEcosystem ==
    \A j \in launch_jobs : Cardinality(lnch[j].ecos) <= 1

\* C15 at work: all four loaders are pinned, the first loader call ended with
\* a TypeError and the call of the except clause has ended too.
C15_Witness ==
    \E j \in launch_jobs :
        /\ lnch[j].deps.fabric # "" /\ lnch[j].deps.quilt # ""
        /\ lnch[j].deps.forge # "" /\ lnch[j].deps.neoforge # ""
        /\ lnch[j].ecos = {"fabric"}
        /\ absorbed[j] /\ pc[j] \in {"l_last_call", "l_resolve"}

\* The loaders a set of pins names.
pinned(deps) ==
    {e \in {"fabric", "quilt", "forge", "neoforge"} :
        \/ e = "fabric" /\ deps.fabric # ""
        \/ e = "quilt" /\ deps.quilt # ""
        \/ e = "forge" /\ deps.forge # ""
        \/ e = "neoforge" /\ deps.neoforge # ""}

\* The id the resolver is to build for base B and at most one pinned loader.
expected_id(deps) ==
    LET B == deps.minecraft IN
    CASE deps.fabric # "" -> "fabric-loader-" \o deps.fabric \o "-" \o B
      [] deps.quilt # "" -> "quilt-loader-" \o deps.quilt \o "-" \o B
      [] deps.forge # "" -> "forge-" \o B \o "-" \o deps.forge
      [] deps.neoforge # "" -> "neoforge-" \o deps.neoforge
      [] OTHER -> B

\* C16: the id a launch job computes from its pins, shown in its "Preparing
\* version" message, is fabric-loader-L-B, quilt-loader-L-B, forge-B-L,
\* neoforge-L or B; base 1.20.1 with fabric 0.15.0 gives
\* fabric-loader-0.15.0-1.20.1 and base 1.20.6 alone gives 1.20.6.
C16_NaiveVersionId ==
    /\ \A j \in launch_jobs :
          JOBS[j].message.text = "Preparing version"
             /\ Cardinality(pinned(lnch[j].deps)) <= 1
             => vid_str(JOBS[j].message.vid) = expected_id(lnch[j].deps)
    /\ vid_str(naive_version_id(Deps("1.20.1", "0.15.0", "", "", "")))
          = "fabric-loader-0.15.0-1.20.1"
    /\ vid_str(naive_version_id(Deps("1.20.6", "", "", "", ""))) = "1.20.6"

\* C16 at work: a job with a forge pin shows the id it computed.
C16_Witness ==
    \E j \in launch_jobs :
        /\ JOBS[j].message.text = "Preparing version"
        /\ pinned(lnch[j].deps) = {"forge"}
        /\ vid_str(JOBS[j].message.vid) = "forge-1.20.1-47.2.0"

---------------------------------------------------------------------------
(* Properties of the helper functions. *)

\* The Java feature version the thresholds give for a (major, minor, patch).
java_for(v) ==
    IF tuple_ge(v, <<1, 20, 5>>) THEN 21
    ELSE IF tuple_ge(v, <<1, 18, 0>>) THEN 17
    ELSE IF tuple_ge(v, <<1, 17, 0>>) THEN 16
    ELSE 8

\* C17: the Java feature version required for game version V, read as a
\* (major, minor, patch) triple with missing components 0 and any suffix
\* ignored, is 21 from 1.20.5, 17 from 1.18.0, 16 from 1.17.0 and 8 below; it
\* is never higher for a lower version.
C17_JavaFeatureThresholds ==
    call.fn = "_required_java_feature_version" /\ call.done
        => /\ call.out = java_for(call.arg.version)
           /\ \A w \in Triples :
                 tuple_ge(w, call.arg.version)
                    => _required_java_feature_version(full_text(w)) >= call.out

\* C17 at work: 1.21, written without its patch component, requires Java 21.
C17_Witness ==
    /\ call.fn = "_required_java_feature_version" /\ call.done
    /\ call.arg.text = <<"1", ".", "2", "1">>
    /\ call.out = 21

\* The classpath string of a command, inline or in its argument file.
classpath_of(cmd, file) ==
    IF cp_index(cmd) # 0 /\ cp_index(cmd) + 1 <= Len(cmd)
    THEN cmd[cp_index(cmd) + 1].cp
    ELSE file.lines[cp_index(file.lines) + 1].cp

is_asm(e, major, minor) == e.art = "asm" /\ e.ver = <<major, minor>>

RECURSIVE without_asm_9_1(_)
without_asm_9_1(entries) ==
    IF entries = <<>> THEN <<>>
    ELSE (IF is_asm(Head(entries), 9, 1) THEN <<>> ELSE <<Head(entries)>>)
             \o without_asm_9_1(Tail(entries))

\* C18: a classpath that holds the asm artifact once as 9.1 and once as 9.5
\* comes back with the 9.5 entry only, every other entry kept in its order.
C18_KeepsNewestAsm ==
    call.fn = "_dedupe_asm_in_cmd" /\ call.done /\ call.arg # PlainCmd
        => LET before == classpath_of(call.arg.cmd, call.arg.file)
               after == classpath_of(call.out.cmd, call.out.file)
           IN  (/\ Cardinality({i \in DOMAIN before : is_asm(before[i], 9, 1)}) = 1
                /\ Cardinality({i \in DOMAIN before : is_asm(before[i], 9, 5)}) = 1)
               => after = without_asm_9_1(before)

\* C19: when an exception is raised inside the sanitizer, the command handed
\* to the process is token for token the command that was built, the argument
\* file is as it was, and the job goes on to start the process: it does not
\* fail before that step.
C19_SanitizerFailureIsHarmless ==
    \A j \in launch_jobs :
        lnch[j].caught
            => /\ lnch[j].popen = lnch[j].given.cmd
               /\ lnch[j].argfile = lnch[j].given.file
               /\ pc[j] \in {"l_spawn", "except", "done"}
               /\ exc[j].raised => exc[j].at = "l_spawn"

\* C19 at work: the sanitizer raised on the classpath line of an argument
\* file, and the process was started.
C19_Witness ==
    \E j \in launch_jobs :
        /\ lnch[j].caught /\ lnch[j].given.file.exists
        /\ lnch[j].spawned /\ JOBS[j].status = "completed"

\* C20: the slug derived from any instance name is not empty and holds only
\* lowercase letters, digits and hyphens.
C20_SlugAlphabet ==
    call.fn = "_slugify" /\ call.done
        => /\ call.out # <<>>
           /\ \A i \in DOMAIN call.out :
                 call.out[i] \in LowerLetters \/ is_digit(call.out[i]) \/ call.out[i] = "-"

\* C21: deriving a slug from a slug gives that slug again, whichever token the
\* second derivation would draw.
C21_SlugIdempotent ==
    call.fn = "_slugify" /\ call.done
        => \A hex \in token_hex_4 : _slugify(call.out, hex) = call.out

\* A name the derivation changed in every way (a removed character, a capital,
\* a run turned into a hyphen), and a name that left nothing.
C21_Witness ==
    /\ call.fn = "_slugify" /\ call.done
    /\ \/ call.arg = <<"A", " ", "!">> /\ call.out = <<"a">>
       \/ call.arg = <<"A", "_", "b">> /\ call.out = <<"a", "-", "b">>

\* C22: a launch job spawns the game only while the credentials it holds (the
\* stored payload with the refreshed values written over it) have both an
\* account id and an access token; a job whose payload is missing, whose
\* credentials lack one of the two or whose refresh raised never spawns and
\* ends failed.
C22_SpawnNeedsCredentials ==
    \A j \in launch_jobs :
        /\ lnch[j].spawned =>
              /\ lnch[j].auth.present
              /\ lnch[j].auth.id # "" /\ lnch[j].auth.access_token # ""
              /\ lnch[j].refresh # "raised"
        /\ (\/ ~lnch[j].auth.present
            \/ lnch[j].auth.id = "" \/ lnch[j].auth.access_token = ""
            \/ lnch[j].refresh = "raised")
              => /\ ~lnch[j].spawned
                 /\ pc[j] = "done" => JOBS[j].status = "failed"

\* The game was spawned with the access token the refresh returned.
C22_Witness ==
    \E j \in launch_jobs :
        /\ lnch[j].spawned /\ lnch[j].refresh = "returned"
        /\ lnch[j].auth.access_token = "t2" /\ lnch[j].auth.id = "u1"
        /\ JOBS[j].status = "completed"

\* C23: during the download step of an install job with N entries the count of
\* completed entries never passes the number of finished downloads, every step
\* of the job leaves it alone or adds one to it, the step ends with the count
\* at N, and the progress reported during the step lies between 15 and 95.
C23_CountStep ==
    \A j \in JobIds :
        pc[j] = "i_pool" =>
            /\ inst'[j].done \in {inst[j].done, inst[j].done + 1}
            /\ inst'[j].done = inst[j].done + 1 =>
                  JOBS'[j].progress = pct(inst'[j].done, total(inst[j].files_entries))
            /\ pc'[j] \in {"i_overrides", "i_manifest"} =>
                  inst[j].done = Len(inst[j].files_entries)

C23_CountBounds ==
    \A j \in JobIds :
        pc[j] = "i_pool" =>
            /\ inst[j].done <=
                  Cardinality({i \in DOMAIN inst[j].fut : finished(inst[j].fut[i])})
            /\ inst[j].done <= Len(inst[j].files_entries)
            /\ JOBS[j].progress >= 15 /\ JOBS[j].progress <= 95

C23_CountedOncePerEntry == [][C23_CountStep]_vars /\ []C23_CountBounds

\* The download step of a manifest with more entries than the pool has threads
\* has ended, every entry counted.
C23_Witness ==
    \E j \in JobIds :
        /\ pc[j] = "i_manifest"
        /\ Len(inst[j].files_entries) = PoolFiles
        /\ inst[j].done = PoolFiles
        /\ JOBS[j].progress = 95

C25_FailedAttemptIsNoHit ==
    (/\ jre.prev.made /\ jre.last.made
     /\ jre.prev.root = jre.last.root /\ jre.prev.feature = jre.last.feature
     /\ ~jre.prev.hit /\ ~jre.prev.ok)
        => /\ ~jre.last.hit
           /\ jre.last.requests >= 1

\* The id the resolver settles on before discovery: the one the loader
\* installer reported, or the naive one when it reported none or did not run.
chosen_id(j) ==
    IF lnch[j].reported # NoVid THEN lnch[j].reported
    ELSE naive_version_id(lnch[j].deps)

\* C26 as stated: from the return of the loader installer on, every step of a
\* launch job (installed check, last-resort install, command construction,
\* spawn) works on the id the installer reported, or on the naive id when it
\* reported none.
C26_ReportedIdEverywhere ==
    \A j \in launch_jobs :
        (pc[j] \in {"l_last_call", "l_resolve", "l_build", "l_command", "l_spawn"}
            \/ lnch[j].spawned)
            => lnch[j].version_id = chosen_id(j)

\* C26: the installed check and the last-resort install work on the id the
\* loader installer reported (the naive id when it reported none), and so do
\* command construction and spawn unless that id was still not installed and
\* discovery put an installed directory's name in its place.
C26_ReportedIdUnlessDiscovered ==
    \A j \in launch_jobs :
        /\ pc[j] \in {"l_last_call", "l_resolve"} => lnch[j].version_id = chosen_id(j)
        /\ (pc[j] \in {"l_build", "l_command", "l_spawn"} \/ lnch[j].spawned)
              => \/ lnch[j].version_id = chosen_id(j)
                 \/ /\ lnch[j].discovered
                    /\ ~_version_exists(chosen_id(j), versions)
                    /\ lnch[j].version_id \in candidates(versions, lnch[j].deps.minecraft)

\* The game was spawned under an id the forge installer reported, which is not
\* the naive forge id.
C26_Witness ==
    \E j \in launch_jobs :
        /\ lnch[j].spawned
        /\ lnch[j].reported # NoVid
        /\ lnch[j].reported # naive_version_id(lnch[j].deps)
        /\ lnch[j].version_id = lnch[j].reported

\* The directories among the entries of an artifact directory.
version_dirs(entries) == {e \in entries : e.dir}

C28_BuildsOnlyInstalledVersion ==
    \A j \in launch_jobs :
        /\ (pc[j] \in {"l_build", "l_command", "l_spawn"} \/ lnch[j].spawned)
              => /\ lnch[j].version_id # NoVid
                 /\ lnch[j].version_id \in versions.json
        /\ (exc[j].raised /\ exc[j].at = "l_resolve")
              => /\ lnch[j].version_id \notin versions.json
                 /\ ~lnch[j].spawned
                 /\ pc[j] = "done" => JOBS[j].status = "failed"

\* The game was spawned under a loader version whose json the store holds, the
\* job's loader installer having run.
C28_Witness ==
    \E j \in launch_jobs :
        /\ lnch[j].spawned /\ JOBS[j].status = "completed"
        /\ lnch[j].ecos # {}
        /\ lnch[j].version_id \in versions.json
        /\ Len(lnch[j].version_id) > 1

\* The loader ecosystem a version id names, "none" for a bare game version.
ecosystem_of(vid) ==
    IF Len(vid) <= 1 THEN "none"
    ELSE IF vid[1] = "fabric-loader" THEN "fabric"
    ELSE IF vid[1] = "quilt-loader" THEN "quilt"
    ELSE IF vid[1] = "neoforge" THEN "neoforge"
    ELSE IF vid[1] = "forge" \/ vid[2] = "forge" THEN "forge"
    ELSE "other"

\* C29: the version id a launch job hands to the command builder and spawns
\* names the loader ecosystem the index pins, or is the bare game version when
\* the index pins no loader.
C29_LaunchedIdMatchesPin ==
    \A j \in launch_jobs :
        (pc[j] \in {"l_command", "l_spawn"} \/ lnch[j].spawned)
            => ecosystem_of(lnch[j].version_id) = loader_installer(lnch[j].deps)

\* C30: a job a request has queued is eventually completed or failed, the
\* background tasks being scheduled and their calls returning or raising.
C30_JobsTerminate ==
    \A j \in JobIds :
        (j \in DOMAIN JOBS) ~> (j \in DOMAIN JOBS /\ terminal(JOBS[j]))

\* A job ran to its end: an install that counted every entry of its manifest,
\* or a launch that spawned the game after an installer had called back.
C30_Witness ==
    \E j \in DOMAIN JOBS :
        /\ pc[j] = "done" /\ JOBS[j].status = "completed"
        /\ \/ kind[j] = "install" /\ inst[j].done = MaxFiles
           \/ kind[j] = "launch" /\ lnch[j].spawned /\ lnch[j].ecos # {}

====
